---- MODULE Spec2Model ----
(***************************************************************************)
(* The client-side graph store of graphaura (a zustand store), the derived *)
(* filtered view and event handlers of the Graph3D component, and the      *)
(* page's load of the graph through the gateway's getGraph.                *)
(*                                                                         *)
(* JavaScript strings are sequences of one-character strings, so that      *)
(* toLowerCase, includes and template-string concatenation are computed.   *)
(* A value that may be null is a set with at most one element.             *)
(***************************************************************************)
EXTENDS Integers, Sequences, FiniteSets, TLC

\* ------------------------------------------------------------------ bounds

MaxNodes == 2
MaxLinks == 2
MaxLoads == 3
MaxRecords == 2
UiMaxNodes == 2
UiMaxLinks == 1

\* ----------------------------------------------------------------- strings

Null == {}
Some(x) == {x}

EmptyString == << >>
Dash == <<"-">>

\* The ASCII letters; the strings of the model hold no other cased letter.
ToLowerChar(c) ==
  CASE c = "A" -> "a"
    [] c = "B" -> "b"
    [] c = "C" -> "c"
    [] c = "D" -> "d"
    [] c = "E" -> "e"
    [] c = "F" -> "f"
    [] c = "G" -> "g"
    [] c = "H" -> "h"
    [] c = "I" -> "i"
    [] c = "J" -> "j"
    [] c = "K" -> "k"
    [] c = "L" -> "l"
    [] c = "M" -> "m"
    [] c = "N" -> "n"
    [] c = "O" -> "o"
    [] c = "P" -> "p"
    [] c = "Q" -> "q"
    [] c = "R" -> "r"
    [] c = "S" -> "s"
    [] c = "T" -> "t"
    [] c = "U" -> "u"
    [] c = "V" -> "v"
    [] c = "W" -> "w"
    [] c = "X" -> "x"
    [] c = "Y" -> "y"
    [] c = "Z" -> "z"
    [] OTHER -> c

\* String.prototype.toLowerCase
toLowerCase(s) == [i \in 1..Len(s) |-> ToLowerChar(s[i])]

\* String.prototype.includes
includes(s, q) ==
  \E i \in 0..(Len(s) - Len(q)) : SubSeq(s, i + 1, i + Len(q)) = q

\* Array.prototype.filter is SelectSeq.

\* new Set(array)
SetOf(arr) == {arr[i] : i \in 1..Len(arr)}

\* -------------------------------------------------------------- data model

NodeTypes == {"person", "event", "location"}

\* A link endpoint is an id string or, once the renderer has resolved it, a
\* node object. The store reads nothing of such an object but its id.
StringEndpoint(id) == [isString |-> TRUE, value |-> id]
ObjectEndpoint(id) == [isString |-> FALSE, value |-> [id |-> id]]

\* typeof e === 'string' ? e : e.id
EndpointId(e) == IF e.isString THEN e.value ELSE e.value.id

\* `${sourceId}-${targetId}`
LinkIdString(s, t) == s \o Dash \o t

EmptyGraph == [nodes |-> << >>, links |-> << >>]

\* ------------------------------------------------------------------- state

VARIABLES
  graphData,          \* store: { nodes, links }
  selectedNode,       \* store: GraphNode | null
  hoveredNode,        \* store: GraphNode | null
  highlightedNodes,   \* store: Set<string>
  highlightedLinks,   \* store: Set<string>
  filterByType,       \* store: NodeType | null
  searchQuery,        \* store: string
  isLoading,          \* store: boolean
  error,              \* store: string | null
  pending,            \* the loads whose request has not settled yet
  issued,             \* how many loads were started so far
  hoverPc,            \* position inside handleNodeHover
  gateway,            \* which getGraph the page is built with
  lastOp              \* the operation that produced this state

storeVars == <<graphData, selectedNode, hoveredNode, highlightedNodes,
               highlightedLinks, filterByType, searchQuery, isLoading, error>>
uiVars == <<selectedNode, hoveredNode, highlightedNodes, highlightedLinks,
            filterByType, searchQuery>>
statusVars == <<isLoading, error>>
envVars == <<pending, issued, hoverPc, gateway>>
vars == <<graphData, selectedNode, hoveredNode, highlightedNodes,
          highlightedLinks, filterByType, searchQuery, isLoading, error,
          pending, issued, hoverPc, gateway, lastOp>>

\* lastOp names the call that produced the state: its name and id arguments,
\* whether the call before it was the same call, and for a call on the graph
\* the lengths of nodes and links before it (for a load: which load). For an
\* event handler, arg is the node (or null) the event came with; for
\* updateNode, the fields it was given; for setGraphData, the snapshot; for
\* addNode and addLink, the node or link; for a settled load, the response.
Op(name, a, b) ==
  [op |-> name, a |-> a, b |-> b, n |-> 0, m |-> 0,
   rep |-> (lastOp.op = name /\ lastOp.a = a /\ lastOp.b = b), arg |-> Null]
GraphOp(name, a, b) ==
  [op |-> name, a |-> a, b |-> b,
   n |-> Len(graphData.nodes), m |-> Len(graphData.links),
   rep |-> (lastOp.op = name /\ lastOp.a = a /\ lastOp.b = b), arg |-> Null]
LoadOp(name, i) ==
  [op |-> name, a |-> EmptyString, b |-> EmptyString, n |-> i, m |-> 0,
   rep |-> FALSE, arg |-> Null]
EventOp(name, node) ==
  [op |-> name, a |-> EmptyString, b |-> EmptyString, n |-> 0, m |-> 0,
   rep |-> FALSE, arg |-> node]

\* The store as created.
InitStore ==
  /\ graphData = EmptyGraph
  /\ selectedNode = Null
  /\ hoveredNode = Null
  /\ highlightedNodes = {}
  /\ highlightedLinks = {}
  /\ filterByType = Null
  /\ searchQuery = EmptyString
  /\ isLoading = FALSE
  /\ error = Null
  /\ pending = {}
  /\ issued = 0
  /\ hoverPc = "idle"
  /\ lastOp = [op |-> "create", a |-> EmptyString, b |-> EmptyString,
               n |-> 0, m |-> 0, rep |-> FALSE, arg |-> Null]

\* ------------------------------------------------- the store's graph logic

\* Faulty variant: a node whose id is already held is not added.
addNodeUnique(g, node) ==
  IF \E i \in 1..Len(g.nodes) : g.nodes[i].id = node.id THEN g
  ELSE [g EXCEPT !.nodes = Append(g.nodes, node)]

addNode(g, node) == [g EXCEPT !.nodes = Append(g.nodes, node)]

removeNodeKeepsNode(n, nodeId) == n.id # nodeId

\* Faulty variant: the endpoints are compared without resolving a node object.
removeNodeKeepsLinkUnresolved(l, nodeId) ==
  /\ (l.source.isString => l.source.value # nodeId)
  /\ (l.target.isString => l.target.value # nodeId)

removeNodeKeepsLink(l, nodeId) ==
  EndpointId(l.source) # nodeId /\ EndpointId(l.target) # nodeId

\* Faulty variant: only the first node with the id is removed.
RECURSIVE DropFirstWithId(_, _)
DropFirstWithId(ns, nodeId) ==
  IF ns = << >> THEN << >>
  ELSE IF Head(ns).id = nodeId THEN Tail(ns)
  ELSE <<Head(ns)>> \o DropFirstWithId(Tail(ns), nodeId)

removeNodeFirstOnly(g, nodeId) ==
  [nodes |-> DropFirstWithId(g.nodes, nodeId),
   links |-> SelectSeq(g.links, LAMBDA l : removeNodeKeepsLink(l, nodeId))]

removeNode(g, nodeId) ==
  [nodes |-> SelectSeq(g.nodes, LAMBDA n : removeNodeKeepsNode(n, nodeId)),
   links |-> SelectSeq(g.links, LAMBDA l : removeNodeKeepsLink(l, nodeId))]

\* { ...n, ...updates }
Merge(n, updates) ==
  [f \in (DOMAIN n) \cup (DOMAIN updates) |->
     IF f \in DOMAIN updates THEN updates[f] ELSE n[f]]

\* Faulty variant: the node's own fields win over the given ones.
updateNodeKeepExisting(g, nodeId, updates) ==
  [g EXCEPT !.nodes =
     [i \in 1..Len(g.nodes) |->
        IF g.nodes[i].id = nodeId THEN Merge(updates, g.nodes[i])
        ELSE g.nodes[i]]]

\* Faulty variant: a node that is not found is added.
updateNodeUpsert(g, nodeId, updates) ==
  IF \E i \in 1..Len(g.nodes) : g.nodes[i].id = nodeId
    THEN [g EXCEPT !.nodes =
            [i \in 1..Len(g.nodes) |->
               IF g.nodes[i].id = nodeId THEN Merge(g.nodes[i], updates)
               ELSE g.nodes[i]]]
    ELSE [g EXCEPT !.nodes = Append(g.nodes, Merge([id |-> nodeId], updates))]

\* Faulty variant: only the first node with the id is updated.
updateNodeFirstOnly(g, nodeId, updates) ==
  [g EXCEPT !.nodes =
     [i \in 1..Len(g.nodes) |->
        IF /\ g.nodes[i].id = nodeId
           /\ \A j \in 1..(i - 1) : g.nodes[j].id # nodeId
          THEN Merge(g.nodes[i], updates)
          ELSE g.nodes[i]]]

updateNode(g, nodeId, updates) ==
  [g EXCEPT !.nodes =
     [i \in 1..Len(g.nodes) |->
        IF g.nodes[i].id = nodeId THEN Merge(g.nodes[i], updates)
        ELSE g.nodes[i]]]

addLink(g, link) == [g EXCEPT !.links = Append(g.links, link)]

\* Faulty variant: the link in the reverse direction matches too.
removeLinkKeepsLinkEitherDirection(l, sId, tId) ==
  LET source == EndpointId(l.source)
      target == EndpointId(l.target)
  IN /\ ~(source = sId /\ target = tId)
     /\ ~(source = tId /\ target = sId)

\* Faulty variant: only endpoints held as id strings are compared.
removeLinkKeepsLinkStringsOnly(l, sId, tId) ==
  ~(/\ l.source.isString /\ l.source.value = sId
    /\ l.target.isString /\ l.target.value = tId)

removeLinkKeepsLink(l, sId, tId) ==
  LET source == EndpointId(l.source)
      target == EndpointId(l.target)
  IN ~(source = sId /\ target = tId)

removeLink(g, sId, tId) ==
  [g EXCEPT !.links = SelectSeq(g.links, LAMBDA l : removeLinkKeepsLink(l, sId, tId))]

\* getNeighbors: the body of links.forEach, on the two result sets.
\* Faulty variant: only the links that leave nodeId count.
NeighborStepOutgoing(acc, link, nodeId) ==
  LET s == EndpointId(link.source)
      t == EndpointId(link.target)
  IN IF s = nodeId
       THEN [nodes |-> acc.nodes \cup {t},
             links |-> acc.links \cup {LinkIdString(s, t)}]
     ELSE acc

\* Faulty variant: a node is never its own neighbour.
NeighborStepNoSelf(acc, link, nodeId) ==
  LET s == EndpointId(link.source)
      t == EndpointId(link.target)
  IN IF s = nodeId /\ t # nodeId
       THEN [nodes |-> acc.nodes \cup {t},
             links |-> acc.links \cup {LinkIdString(s, t)}]
     ELSE IF t = nodeId /\ s # nodeId
       THEN [nodes |-> acc.nodes \cup {s},
             links |-> acc.links \cup {LinkIdString(s, t)}]
     ELSE acc

\* Faulty variant: the link's string is built from nodeId's side.
NeighborStepFromNode(acc, link, nodeId) ==
  LET s == EndpointId(link.source)
      t == EndpointId(link.target)
  IN IF s = nodeId
       THEN [nodes |-> acc.nodes \cup {t},
             links |-> acc.links \cup {LinkIdString(s, t)}]
     ELSE IF t = nodeId
       THEN [nodes |-> acc.nodes \cup {s},
             links |-> acc.links \cup {LinkIdString(t, s)}]
     ELSE acc

NeighborStep(acc, link, nodeId) ==
  LET s == EndpointId(link.source)
      t == EndpointId(link.target)
  IN IF s = nodeId
       THEN [nodes |-> acc.nodes \cup {t},
             links |-> acc.links \cup {LinkIdString(s, t)}]
     ELSE IF t = nodeId
       THEN [nodes |-> acc.nodes \cup {s},
             links |-> acc.links \cup {LinkIdString(s, t)}]
     ELSE acc

RECURSIVE NeighborScan(_, _, _, _)
NeighborScan(ls, i, nodeId, acc) ==
  IF i > Len(ls) THEN acc
  ELSE NeighborScan(ls, i + 1, nodeId, NeighborStep(acc, ls[i], nodeId))

getNeighbors(g, nodeId) ==
  NeighborScan(g.links, 1, nodeId, [nodes |-> {}, links |-> {}])

\* ---------------------------------------- Graph3D: the derived filtered view

\* new Set(nodes.map((n) => n.id))
nodeIdsOf(nodes) == SetOf([i \in 1..Len(nodes) |-> nodes[i].id])

\* Faulty variant: only the source endpoint is looked up.
linkInsideSourceOnly(link, nodeIds) == EndpointId(link.source) \in nodeIds

linkInside(link, nodeIds) ==
  EndpointId(link.source) \in nodeIds /\ EndpointId(link.target) \in nodeIds

typeMatches(node, t) == node.type = t

\* Faulty variant: the name and the query are compared as written.
nameMatchesCaseSensitive(node, query) == includes(node.name, query)

nameMatches(node, query) ==
  includes(toLowerCase(node.name), toLowerCase(query))

\* if (filterByType) { ... }
applyTypeFilter(d, fType) ==
  IF fType # Null
    THEN LET t == CHOOSE x \in fType : TRUE
             nodes == SelectSeq(d.nodes, LAMBDA n : typeMatches(n, t))
             nodeIds == nodeIdsOf(nodes)
         IN [nodes |-> nodes,
             links |-> SelectSeq(d.links, LAMBDA l : linkInside(l, nodeIds))]
    ELSE d

\* Faulty variant: the search step runs for the empty query too.
applySearchFilterAlways(d, query) ==
  LET nodes == SelectSeq(d.nodes, LAMBDA n : nameMatches(n, query))
      nodeIds == nodeIdsOf(nodes)
  IN [nodes |-> nodes,
      links |-> SelectSeq(d.links, LAMBDA l : linkInside(l, nodeIds))]

\* if (searchQuery) { ... }
applySearchFilter(d, query) ==
  IF query # EmptyString
    THEN LET nodes == SelectSeq(d.nodes, LAMBDA n : nameMatches(n, query))
             nodeIds == nodeIdsOf(nodes)
         IN [nodes |-> nodes,
             links |-> SelectSeq(d.links, LAMBDA l : linkInside(l, nodeIds))]
    ELSE d

\* Faulty variant: the search step narrows the nodes and leaves the links
\* of the type step.
filteredDataSearchKeepsLinks(g, fType, query) ==
  LET typed == applyTypeFilter(g, fType)
  IN [nodes |-> applySearchFilter(typed, query).nodes, links |-> typed.links]

filteredData(g, fType, query) ==
  applySearchFilter(applyTypeFilter(g, fType), query)

FilteredView == filteredData(graphData, filterByType, searchQuery)

\* ------------------------------------------------------- the gateway (api)

\* record.n.category === 'Event' ? 'event' : ... : 'event'
NodeTypeOfCategory(category) ==
  CASE category = "Event" -> "event"
    [] category = "Date" -> "event"
    [] category = "Location" -> "location"
    [] category = "Person" -> "person"
    [] OTHER -> "event"

GatewayNode(e) ==
  [id |-> e.name, name |-> e.name, type |-> NodeTypeOfCategory(e.category)]

\* if (record.x && !nodes.has(record.x.name)) nodes.set(record.x.name, ...)
\* The Map keeps insertion order; acc.nodes is its values() in that order.
\* Faulty variant: the node is added without looking the name up.
GatewayAddNodeAlways(acc, entity) ==
  IF entity # Null
    THEN [acc EXCEPT !.nodes =
            Append(acc.nodes, GatewayNode(CHOOSE x \in entity : TRUE))]
    ELSE acc

GatewayAddNode(acc, entity) ==
  IF entity # Null
    THEN LET e == CHOOSE x \in entity : TRUE
         IN IF e.name \notin nodeIdsOf(acc.nodes)
              THEN [acc EXCEPT !.nodes = Append(acc.nodes, GatewayNode(e))]
              ELSE acc
    ELSE acc

\* record.r.type || 'RELATED_TO'
RelationshipOf(r) == IF r.type = "" THEN "RELATED_TO" ELSE r.type

\* Faulty variant: only the link's own direction is looked up in linkSet.
GatewayAddLinkOneOrder(acc, record) ==
  IF record.r # Null /\ record.n # Null /\ record.m # Null
    THEN LET n == CHOOSE x \in record.n : TRUE
             m == CHOOSE x \in record.m : TRUE
             r == CHOOSE x \in record.r : TRUE
             linkId == LinkIdString(n.name, m.name)
         IN IF linkId \notin acc.linkSet
              THEN [acc EXCEPT
                      !.links = Append(acc.links,
                                  [source |-> StringEndpoint(n.name),
                                   target |-> StringEndpoint(m.name),
                                   relationship |-> RelationshipOf(r)]),
                      !.linkSet = acc.linkSet \cup {linkId}]
              ELSE acc
    ELSE acc

\* if (record.r && record.n && record.m) { ... }
GatewayAddLink(acc, record) ==
  IF record.r # Null /\ record.n # Null /\ record.m # Null
    THEN LET n == CHOOSE x \in record.n : TRUE
             m == CHOOSE x \in record.m : TRUE
             r == CHOOSE x \in record.r : TRUE
             linkId == LinkIdString(n.name, m.name)
             reverseLinkId == LinkIdString(m.name, n.name)
         IN IF linkId \notin acc.linkSet /\ reverseLinkId \notin acc.linkSet
              THEN [acc EXCEPT
                      !.links = Append(acc.links,
                                  [source |-> StringEndpoint(n.name),
                                   target |-> StringEndpoint(m.name),
                                   relationship |-> RelationshipOf(r)]),
                      !.linkSet = acc.linkSet \cup {linkId}]
              ELSE acc
    ELSE acc

\* the body of response.data.results.forEach
GatewayProcessRecord(acc, record) ==
  GatewayAddLink(GatewayAddNode(GatewayAddNode(acc, record.n), record.m), record)

RECURSIVE GatewayScan(_, _, _)
GatewayScan(results, i, acc) ==
  IF i > Len(results) THEN acc
  ELSE GatewayScan(results, i + 1, GatewayProcessRecord(acc, results[i]))

GatewayStart == [nodes |-> << >>, links |-> << >>, linkSet |-> {}]

GatewayResult(acc) == [nodes |-> acc.nodes, links |-> acc.links]

\* A settled request: ok (with the response body) or rejected. getGraph
\* either returns a snapshot or throws.
Returned(data) == [threw |-> FALSE, data |-> data]
Thrown == [threw |-> TRUE, data |-> EmptyGraph]

\* graphApi.getGraph over GET /graph: the body is parsed against the schema.
getGraphRest(response) ==
  IF response.ok /\ response.valid THEN Returned(response.body) ELSE Thrown

\* graphApi.getGraph over the cypher query: builds the snapshot from the
\* result records, and catches every error.
getGraphCypher(response) ==
  IF response.ok
    THEN Returned(GatewayResult(GatewayScan(response.results, 1, GatewayStart)))
    ELSE Returned(EmptyGraph)

\* ------------------------------------------------------ the store's actions
\* Every store function is one synchronous call of zustand's set(), which
\* merges the fields it is given into the state and keeps the others. No
\* call starts while handleNodeHover is between its two store writes.

State ==
  [graphData |-> graphData, selectedNode |-> selectedNode,
   hoveredNode |-> hoveredNode, highlightedNodes |-> highlightedNodes,
   highlightedLinks |-> highlightedLinks, filterByType |-> filterByType,
   searchQuery |-> searchQuery, isLoading |-> isLoading, error |-> error]

\* set(partial)
Set(partial) ==
  LET next == Merge(State, partial)
  IN /\ graphData' = next.graphData
     /\ selectedNode' = next.selectedNode
     /\ hoveredNode' = next.hoveredNode
     /\ highlightedNodes' = next.highlightedNodes
     /\ highlightedLinks' = next.highlightedLinks
     /\ filterByType' = next.filterByType
     /\ searchQuery' = next.searchQuery
     /\ isLoading' = next.isLoading
     /\ error' = next.error

Idle == hoverPc = "idle"

\* The partial state each store function hands to set().
\* Faulty variant: the selection is dropped with the old graph.
setGraphDataPartialClearsSelection(data) ==
  [graphData |-> data, selectedNode |-> Null]

setGraphDataPartial(data) == [graphData |-> data]
addNodePartial(state, node) == [graphData |-> addNode(state.graphData, node)]
\* Faulty variant: a selected or hovered node with the id is let go.
removeNodePartialClearsReferences(state, nodeId) ==
  [graphData |-> removeNode(state.graphData, nodeId),
   selectedNode |-> {n \in state.selectedNode : n.id # nodeId},
   hoveredNode |-> {n \in state.hoveredNode : n.id # nodeId}]

removeNodePartial(state, nodeId) ==
  [graphData |-> removeNode(state.graphData, nodeId)]
updateNodePartial(state, nodeId, updates) ==
  [graphData |-> updateNode(state.graphData, nodeId, updates)]
addLinkPartial(state, link) == [graphData |-> addLink(state.graphData, link)]
removeLinkPartial(state, sId, tId) ==
  [graphData |-> removeLink(state.graphData, sId, tId)]
\* Faulty variant: the selected node becomes the hovered node too.
setSelectedNodePartialWithHover(node) ==
  [selectedNode |-> node, hoveredNode |-> node]

setSelectedNodePartial(node) == [selectedNode |-> node]
setHoveredNodePartial(node) == [hoveredNode |-> node]
setHighlightedNodesPartial(nodeIds) == [highlightedNodes |-> SetOf(nodeIds)]
setHighlightedLinksPartial(linkIds) == [highlightedLinks |-> SetOf(linkIds)]
setFilterByTypePartial(type) == [filterByType |-> type]
setSearchQueryPartial(query) == [searchQuery |-> query]
setLoadingPartial(loading) == [isLoading |-> loading]
setErrorPartial(e) == [error |-> e]
\* Faulty variant: clearGraph resets the hover state as well.
clearGraphPartialWithHover ==
  [graphData |-> EmptyGraph, selectedNode |-> Null, hoveredNode |-> Null,
   highlightedNodes |-> {}, highlightedLinks |-> {}]

clearGraphPartial == [graphData |-> EmptyGraph, selectedNode |-> Null]

SetGraphData(data) ==
  /\ Idle
  /\ Set(setGraphDataPartial(data))
  /\ lastOp' = [GraphOp("setGraphData", EmptyString, EmptyString)
                  EXCEPT !.arg = Some(data)]
  /\ UNCHANGED envVars

AddNode(node, max) ==
  /\ Idle
  /\ Len(graphData.nodes) < max
  /\ Set(addNodePartial(State, node))
  /\ lastOp' = [GraphOp("addNode", node.id, EmptyString)
                  EXCEPT !.arg = Some(node)]
  /\ UNCHANGED envVars

RemoveNode(nodeId) ==
  /\ Idle
  /\ Set(removeNodePartial(State, nodeId))
  /\ lastOp' = GraphOp("removeNode", nodeId, EmptyString)
  /\ UNCHANGED envVars

UpdateNode(nodeId, updates) ==
  /\ Idle
  /\ Set(updateNodePartial(State, nodeId, updates))
  /\ lastOp' = [GraphOp("updateNode", nodeId, EmptyString)
                  EXCEPT !.arg = Some(updates)]
  /\ UNCHANGED envVars

AddLink(link, max) ==
  /\ Idle
  /\ Len(graphData.links) < max
  /\ Set(addLinkPartial(State, link))
  /\ lastOp' = [GraphOp("addLink", EndpointId(link.source),
                          EndpointId(link.target))
                  EXCEPT !.arg = Some(link)]
  /\ UNCHANGED envVars

RemoveLink(sId, tId) ==
  /\ Idle
  /\ Set(removeLinkPartial(State, sId, tId))
  /\ lastOp' = GraphOp("removeLink", sId, tId)
  /\ UNCHANGED envVars

SetSelectedNode(node) ==
  /\ Idle
  /\ Set(setSelectedNodePartial(node))
  /\ lastOp' = Op("setSelectedNode", EmptyString, EmptyString)
  /\ UNCHANGED envVars

SetHoveredNode(node) ==
  /\ Idle
  /\ Set(setHoveredNodePartial(node))
  /\ lastOp' = Op("setHoveredNode", EmptyString, EmptyString)
  /\ UNCHANGED envVars

SetHighlightedNodes(nodeIds) ==
  /\ Idle
  /\ Set(setHighlightedNodesPartial(nodeIds))
  /\ lastOp' = Op("setHighlightedNodes", EmptyString, EmptyString)
  /\ UNCHANGED envVars

SetHighlightedLinks(linkIds) ==
  /\ Idle
  /\ Set(setHighlightedLinksPartial(linkIds))
  /\ lastOp' = Op("setHighlightedLinks", EmptyString, EmptyString)
  /\ UNCHANGED envVars

SetFilterByType(type) ==
  /\ Idle
  /\ Set(setFilterByTypePartial(type))
  /\ lastOp' = Op("setFilterByType", EmptyString, EmptyString)
  /\ UNCHANGED envVars

SetSearchQuery(query) ==
  /\ Idle
  /\ Set(setSearchQueryPartial(query))
  /\ lastOp' = Op("setSearchQuery", EmptyString, EmptyString)
  /\ UNCHANGED envVars

SetLoading(loading) ==
  /\ Idle
  /\ Set(setLoadingPartial(loading))
  /\ lastOp' = Op("setLoading", EmptyString, EmptyString)
  /\ UNCHANGED envVars

SetError(e) ==
  /\ Idle
  /\ Set(setErrorPartial(e))
  /\ lastOp' = Op("setError", EmptyString, EmptyString)
  /\ UNCHANGED envVars

ClearGraph ==
  /\ Idle
  /\ Set(clearGraphPartial)
  /\ lastOp' = GraphOp("clearGraph", EmptyString, EmptyString)
  /\ UNCHANGED envVars

\* ------------------------------------------------- Graph3D: event handlers

\* handleNodeClick: setSelectedNode(node), then the camera move.
HandleNodeClick(node) ==
  /\ Idle
  /\ Set(setSelectedNodePartial(Some(node)))
  /\ lastOp' = EventOp("handleNodeClick", Some(node))
  /\ UNCHANGED envVars

\* handleBackgroundClick: setSelectedNode(null)
HandleBackgroundClick ==
  /\ Idle
  /\ Set(setSelectedNodePartial(Null))
  /\ lastOp' = EventOp("handleBackgroundClick", Null)
  /\ UNCHANGED envVars

\* handleNodeHover, first store write: setHoveredNode(node)
HandleNodeHoverSetHovered(node) ==
  /\ Idle
  /\ Set(setHoveredNodePartial(node))
  /\ hoverPc' = "hovered"
  /\ lastOp' = EventOp("handleNodeHover:setHoveredNode", node)
  /\ UNCHANGED <<pending, issued, gateway>>

\* Faulty variant: the hovered node is highlighted with its neighbours.
hoverHighlightPartialWithSelf(state, node) ==
  IF node # Null
    THEN LET id == (CHOOSE x \in node : TRUE).id
             neighbors == getNeighbors(state.graphData, id)
         IN [highlightedNodes |-> neighbors.nodes \cup {id},
             highlightedLinks |-> neighbors.links]
    ELSE [highlightedNodes |-> {}, highlightedLinks |-> {}]

\* Faulty variant: the neighbours are added to the sets already held.
hoverHighlightPartialIncremental(state, node) ==
  IF node # Null
    THEN LET neighbors == getNeighbors(state.graphData, (CHOOSE x \in node : TRUE).id)
         IN [highlightedNodes |-> state.highlightedNodes \cup neighbors.nodes,
             highlightedLinks |-> state.highlightedLinks \cup neighbors.links]
    ELSE [highlightedNodes |-> {}, highlightedLinks |-> {}]

\* What handleNodeHover hands to useGraphStore.setState for `node`.
hoverHighlightPartial(state, node) ==
  IF node # Null
    THEN LET neighbors == getNeighbors(state.graphData, (CHOOSE x \in node : TRUE).id)
         IN [highlightedNodes |-> neighbors.nodes,
             highlightedLinks |-> neighbors.links]
    ELSE [highlightedNodes |-> {}, highlightedLinks |-> {}]

\* handleNodeHover, second store write; node is the handler's argument.
HandleNodeHoverSetHighlights ==
  /\ hoverPc = "hovered"
  /\ Set(hoverHighlightPartial(State, lastOp.arg))
  /\ hoverPc' = "idle"
  /\ lastOp' = EventOp("handleNodeHover", lastOp.arg)
  /\ UNCHANGED <<pending, issued, gateway>>

\* -------------------------------------------------- page: loadGraphData

getGraph(gw, response) ==
  IF gw = "rest" THEN getGraphRest(response) ELSE getGraphCypher(response)

\* The request was rejected, or (over GET /graph) its body is not a graph.
RequestFailed(gw, response) ==
  ~response.ok \/ (gw = "rest" /\ ~response.valid)

LoadErrorMessage == "Failed to load graph data"

\* setLoading(true), then the request is issued.
LoadStart ==
  /\ Idle
  /\ issued < MaxLoads
  /\ Set(setLoadingPartial(TRUE))
  /\ issued' = issued + 1
  /\ pending' = pending \cup {issued + 1}
  /\ lastOp' = LoadOp("loadStart", issued + 1)
  /\ UNCHANGED <<hoverPc, gateway>>

\* The store writes of loadGraphData once `await graphApi.getGraph()` has
\* settled with `out`: try { setGraphData } catch { setError } finally
\* { setLoading(false) }, merged in that order.
\* Faulty variant: a load that succeeds resets error.
loadSettledPartialClearsError(out) ==
  IF out.threw
    THEN Merge(setErrorPartial(Some(LoadErrorMessage)), setLoadingPartial(FALSE))
    ELSE Merge(Merge(setGraphDataPartial(out.data), setErrorPartial(Null)),
               setLoadingPartial(FALSE))

\* Faulty variant: setLoading(false) ends the try block instead of a finally.
loadSettledPartialNoFinally(out) ==
  IF out.threw
    THEN setErrorPartial(Some(LoadErrorMessage))
    ELSE Merge(setGraphDataPartial(out.data), setLoadingPartial(FALSE))

loadSettledPartial(out) ==
  IF out.threw
    THEN Merge(setErrorPartial(Some(LoadErrorMessage)), setLoadingPartial(FALSE))
    ELSE Merge(setGraphDataPartial(out.data), setLoadingPartial(FALSE))

\* Faulty variant: the result of a load is dropped when a later load was
\* started meanwhile.
LoadSettleLatestOnly(i, response) ==
  /\ Idle
  /\ i \in pending
  /\ IF i = issued
       THEN Set(loadSettledPartial(getGraph(gateway, response)))
       ELSE Set(setLoadingPartial(FALSE))
  /\ pending' = pending \ {i}
  /\ lastOp' = [LoadOp(IF RequestFailed(gateway, response)
                         THEN "loadFailed" ELSE "loadSucceeded", i)
                  EXCEPT !.arg = Some(response)]
  /\ UNCHANGED <<issued, hoverPc, gateway>>

LoadSettle(i, response) ==
  /\ Idle
  /\ i \in pending
  /\ Set(loadSettledPartial(getGraph(gateway, response)))
  /\ pending' = pending \ {i}
  /\ lastOp' = [LoadOp(IF RequestFailed(gateway, response)
                         THEN "loadFailed" ELSE "loadSucceeded", i)
                  EXCEPT !.arg = Some(response)]
  /\ UNCHANGED <<issued, hoverPc, gateway>>

\* ------------------------------------------------------------- input sets

sa == <<"a">>
sb == <<"b">>
sA == <<"A">>
sB == <<"B">>
sC == <<"C">>
nameAl == <<"A", "l">>
nameBo == <<"B", "o">>

Node(id, type, name) == [id |-> id, name |-> name, type |-> type]
Link(s, t) == [source |-> s, target |-> t, relationship |-> "KNOWS"]

\* Nodes A(person), B(event), C(location) with links A-B and B-C.
ExampleABC ==
  [nodes |-> <<Node(sA, "person", sA), Node(sB, "event", sB),
               Node(sC, "location", sC)>>,
   links |-> <<Link(StringEndpoint(sA), StringEndpoint(sB)),
               Link(StringEndpoint(sB), StringEndpoint(sC))>>]

GraphIds == {sa, sb}

\* Two nodes share the id a.
GraphNodes ==
  {Node(sa, "person", nameAl), Node(sa, "event", nameBo),
   Node(sb, "event", nameBo)}

GraphLinks ==
  {Link(StringEndpoint(sa), StringEndpoint(sb)),
   Link(ObjectEndpoint(sb), ObjectEndpoint(sa)),
   Link(ObjectEndpoint(sa), StringEndpoint(sa)),
   Link(StringEndpoint(sb), ObjectEndpoint(sb))}

GraphUpdates == {[name |-> nameAl], [id |-> sb]}

GraphSnapshots == {EmptyGraph, ExampleABC}

s1 == <<"1">>
s2 == <<"2">>
nameAlice == <<"A", "l", "i", "c", "e">>
nameAlicetownFair ==
  <<"A", "l", "i", "c", "e", "t", "o", "w", "n", " ", "F", "a", "i", "r">>
queryAlice == <<"a", "l", "i", "c", "e">>
queryBO == <<"B", "O">>

\* Nodes {1, person, Alice} and {2, event, Alicetown Fair}, no links.
ExampleAlice ==
  [nodes |-> <<Node(s1, "person", nameAlice),
               Node(s2, "event", nameAlicetownFair)>>,
   links |-> << >>]

\* Two nodes share the id a; b is the id of no node.
ExampleDangling ==
  [nodes |-> <<Node(sa, "person", nameAl), Node(sa, "event", nameBo)>>,
   links |-> <<Link(StringEndpoint(sa), StringEndpoint(sb)),
               Link(ObjectEndpoint(sa), StringEndpoint(sa))>>]

FilterSnapshots == {EmptyGraph, ExampleABC, ExampleAlice, ExampleDangling}
FilterTypes == {Null, Some("person"), Some("event")}
FilterQueries == {EmptyString, queryAlice, queryBO}

\* ------------------------------------------ the store's graph API, driven
\* by any caller in any order

InitGraph == InitStore /\ gateway = "cypher"

NextGraph ==
  \/ \E data \in GraphSnapshots : SetGraphData(data)
  \/ \E node \in GraphNodes : AddNode(node, MaxNodes)
  \/ \E nodeId \in GraphIds \cup {sB} : RemoveNode(nodeId)
  \/ \E nodeId \in GraphIds, updates \in GraphUpdates :
       UpdateNode(nodeId, updates)
  \/ \E link \in GraphLinks : AddLink(link, MaxLinks)
  \/ \E sId \in GraphIds, tId \in GraphIds : RemoveLink(sId, tId)
  \/ ClearGraph

SpecGraph == InitGraph /\ [][NextGraph]_vars

\* --------------------------------- the graph, the filters and the search box

NextFilter ==
  \/ \E data \in FilterSnapshots : SetGraphData(data)
  \/ \E node \in GraphNodes : AddNode(node, MaxNodes)
  \/ \E link \in GraphLinks : AddLink(link, MaxLinks)
  \/ \E type \in FilterTypes : SetFilterByType(type)
  \/ \E query \in FilterQueries : SetSearchQuery(query)

SpecFilter == InitGraph /\ [][NextFilter]_vars

\* ------------------------------------------------------- the page's loads

Entity(name, category) == [name |-> name, category |-> category]
Record(n, r, m) == [n |-> n, r |-> r, m |-> m]

LoadResults ==
  {<< >>,
   <<Record(Some(Entity(sa, "Person")), Some([type |-> "KNOWS"]),
            Some(Entity(sb, "Location")))>>}

CypherResponses ==
  {[ok |-> FALSE, results |-> << >>]}
    \cup {[ok |-> TRUE, results |-> rs] : rs \in LoadResults}

LoadSnapshots == {EmptyGraph, ExampleABC}

RestResponses ==
  {[ok |-> FALSE, valid |-> FALSE, body |-> EmptyGraph],
   [ok |-> TRUE, valid |-> FALSE, body |-> EmptyGraph]}
    \cup {[ok |-> TRUE, valid |-> TRUE, body |-> S] : S \in LoadSnapshots}

Responses(gw) == IF gw = "rest" THEN RestResponses ELSE CypherResponses

InitLoad == InitStore /\ gateway \in {"rest", "cypher"}

LoadSettles == \E i \in pending, response \in Responses(gateway) : LoadSettle(i, response)

NextLoad ==
  \/ LoadStart
  \/ LoadSettles
  \/ \E e \in {Null} : SetError(e)
  \/ ClearGraph

SpecLoad == InitLoad /\ [][NextLoad]_vars

\* A request settles: the client gives up after its timeout at the latest,
\* and the event loop then runs the continuation.
FairSpecLoad == SpecLoad /\ WF_vars(LoadSettles)

\* -------------------------------- the whole store and the Graph3D handlers

UiNodes == {Node(sa, "person", nameAl)}
UiLinks == {Link(StringEndpoint(sa), ObjectEndpoint(sb))}
UiIds == {sa, sb}
UiUpdates == {[type |-> "event"]}
UiSnapshots == {EmptyGraph}
UiTypes == {Null, Some("person")}
UiQueries == {EmptyString, queryBO}

RenderedNodes == SetOf(FilteredView.nodes)

Init == InitStore /\ gateway = "cypher"

Next ==
  \/ \E data \in UiSnapshots : SetGraphData(data)
  \/ \E node \in UiNodes : AddNode(node, UiMaxNodes)
  \/ \E nodeId \in UiIds : RemoveNode(nodeId)
  \/ \E nodeId \in UiIds, updates \in UiUpdates : UpdateNode(nodeId, updates)
  \/ \E link \in UiLinks : AddLink(link, UiMaxLinks)
  \/ \E sId \in UiIds, tId \in UiIds : RemoveLink(sId, tId)
  \/ \E type \in UiTypes : SetFilterByType(type)
  \/ \E query \in UiQueries : SetSearchQuery(query)
  \/ \E loading \in BOOLEAN : SetLoading(loading)
  \/ \E e \in {Null, Some(LoadErrorMessage)} : SetError(e)
  \/ ClearGraph
  \/ \E node \in RenderedNodes : HandleNodeClick(node)
  \/ HandleBackgroundClick
  \/ \E node \in {Null} \cup {Some(n) : n \in RenderedNodes} :
       HandleNodeHoverSetHovered(node)
  \/ HandleNodeHoverSetHighlights

Spec == Init /\ [][Next]_vars

\* ------------------------- snapshots replacing a graph on screen, with the
\* selection and the hover the handlers have set

\* One node b and a link from b to a, which is no node of the snapshot.
ExampleStale ==
  [nodes |-> <<Node(sb, "event", nameBo)>>,
   links |-> <<Link(StringEndpoint(sb), StringEndpoint(sa))>>]

StaleSnapshots == {EmptyGraph, ExampleStale, ExampleDangling}

NextSnapshot ==
  \/ \E data \in StaleSnapshots : SetGraphData(data)
  \/ \E node \in UiNodes : AddNode(node, UiMaxNodes)
  \/ \E link \in UiLinks : AddLink(link, UiMaxLinks)
  \/ \E nodeId \in UiIds : RemoveNode(nodeId)
  \/ ClearGraph
  \/ \E node \in RenderedNodes : HandleNodeClick(node)
  \/ HandleBackgroundClick
  \/ \E node \in {Null} \cup {Some(n) : n \in RenderedNodes} :
       HandleNodeHoverSetHovered(node)
  \/ HandleNodeHoverSetHighlights

SpecSnapshot == Init /\ [][NextSnapshot]_vars

\* ------------------------------ the page's load on mount, over the cypher
\* query: what getGraph builds from the result records

sab == <<"a", "-", "b">>
sba == <<"b", "-", "a">>

\* The entities the query can return; a comes with two categories.
GatewayEntities ==
  {Entity(sa, "Person"), Entity(sa, "Date"), Entity(sb, "Location"),
   Entity(sab, "Event"), Entity(sba, "Organization")}

GatewayRelationships == {[type |-> "KNOWS"], [type |-> ""]}

\* MATCH (n) OPTIONAL MATCH (n)-[r]-(m): n alone, or n, r and m.
GatewayRecords ==
  {Record(Some(n), Null, Null) : n \in GatewayEntities}
    \cup {Record(Some(n), Some(r), Some(m)) :
            n \in GatewayEntities, r \in GatewayRelationships,
            m \in GatewayEntities}

RECURSIVE SeqsUpTo(_, _)
SeqsUpTo(S, k) ==
  IF k = 0 THEN {<< >>}
  ELSE LET shorter == SeqsUpTo(S, k - 1)
       IN shorter \cup {Append(q, x) : q \in shorter, x \in S}

GatewayResponses ==
  {[ok |-> FALSE, results |-> << >>]}
    \cup {[ok |-> TRUE, results |-> rs] : rs \in SeqsUpTo(GatewayRecords, MaxRecords)}

GatewaySettles ==
  \E i \in pending, response \in GatewayResponses : LoadSettle(i, response)

\* The effect of the page runs loadGraphData once, when the page is mounted.
NextGateway ==
  \/ (issued = 0 /\ LoadStart)
  \/ GatewaySettles

SpecGateway == InitGraph /\ [][NextGateway]_vars

\* ---------------- the page as its user drives it: loads, the header's
\* filter and search controls, and the events of the graph view, which is
\* mounted while isLoading is false

NextAdapter ==
  \/ LoadStart
  \/ LoadSettles
  \/ \E type \in UiTypes : SetFilterByType(type)
  \/ \E query \in UiQueries : SetSearchQuery(query)
  \/ (~isLoading /\ \E node \in RenderedNodes : HandleNodeClick(node))
  \/ (~isLoading /\ HandleBackgroundClick)
  \/ (~isLoading /\ \E node \in {Null} \cup {Some(n) : n \in RenderedNodes} :
                       HandleNodeHoverSetHovered(node))
  \/ HandleNodeHoverSetHighlights

SpecAdapter == InitLoad /\ [][NextAdapter]_vars

\* ================================================================= claims

AllIds == {sa, sb, sA, sB, sC}

Incident(l, id) == EndpointId(l.source) = id \/ EndpointId(l.target) = id

RECURSIVE LinksMinusIncident(_, _)
LinksMinusIncident(ls, id) ==
  IF ls = << >> THEN << >>
  ELSE IF Incident(Head(ls), id) THEN LinksMinusIncident(Tail(ls), id)
  ELSE <<Head(ls)>> \o LinksMinusIncident(Tail(ls), id)

RECURSIVE NodesMinusId(_, _)
NodesMinusId(ns, id) ==
  IF ns = << >> THEN << >>
  ELSE IF Head(ns).id = id THEN NodesMinusId(Tail(ns), id)
  ELSE <<Head(ns)>> \o NodesMinusId(Tail(ns), id)

\* C1: every removeNode(id) step leaves exactly the links before it, in
\* order, minus those whose resolved source or target id is id, and the nodes
\* before it, in order, minus those whose id is id.
C1_RemoveNodeExact ==
  [][lastOp'.op = "removeNode" =>
       /\ graphData'.links = LinksMinusIncident(graphData.links, lastOp'.a)
       /\ graphData'.nodes = NodesMinusId(graphData.nodes, lastOp'.a)]_vars

\* A removeNode(a) that dropped two nodes and at least one link and kept a
\* link, with an object endpoint in play before it.
C1_Witness ==
  /\ lastOp.op = "removeNode"
  /\ lastOp.a = sa
  /\ lastOp.n = Len(graphData.nodes) + 2
  /\ lastOp.m > Len(graphData.links)
  /\ Len(graphData.links) > 0

\* C2: in every graph, B is a neighbor of A exactly when A is a neighbor
\* of B.
C2_NeighborsSymmetric ==
  \A x \in AllIds, y \in AllIds :
    (y \in getNeighbors(graphData, x).nodes)
      <=> (x \in getNeighbors(graphData, y).nodes)

\* a and b are joined by a link stored from a to b only, and each is found
\* as the other's neighbor.
C2_Witness ==
  /\ \E i \in 1..Len(graphData.links) :
       /\ EndpointId(graphData.links[i].source) = sa
       /\ EndpointId(graphData.links[i].target) = sb
  /\ \A i \in 1..Len(graphData.links) :
       ~(/\ EndpointId(graphData.links[i].source) = sb
         /\ EndpointId(graphData.links[i].target) = sa)
  /\ sa \in getNeighbors(graphData, sb).nodes
  /\ sb \in getNeighbors(graphData, sa).nodes

IncidentLinks(g, id) ==
  {i \in 1..Len(g.links) : Incident(g.links[i], id)}

OppositeId(l, id) ==
  IF EndpointId(l.source) = id THEN EndpointId(l.target)
  ELSE EndpointId(l.source)

\* C3: getNeighbors(n) is the set of opposite endpoint ids of the links
\* incident to n and the set of their source-target strings (empty when no
\* link is incident); on the A, B, C example getNeighbors("B") is
\* {A, C} and {"A-B", "B-C"}.
C3_NeighborsExact ==
  /\ \A id \in AllIds :
       /\ getNeighbors(graphData, id).nodes =
            {OppositeId(graphData.links[i], id) : i \in IncidentLinks(graphData, id)}
       /\ getNeighbors(graphData, id).links =
            {EndpointId(graphData.links[i].source) \o <<"-">>
               \o EndpointId(graphData.links[i].target) :
               i \in IncidentLinks(graphData, id)}
       /\ (IncidentLinks(graphData, id) = {} =>
             getNeighbors(graphData, id) = [nodes |-> {}, links |-> {}])
  /\ (graphData = ExampleABC =>
        getNeighbors(graphData, sB) =
          [nodes |-> {sA, sC},
           links |-> {<<"A", "-", "B">>, <<"B", "-", "C">>}])

\* The A, B, C example is loaded; B has two neighbors.
C3_Witness ==
  /\ graphData = ExampleABC
  /\ lastOp.op = "setGraphData"
  /\ Cardinality(getNeighbors(graphData, sB).nodes) = 2

TypeOk(n) == filterByType = Null \/ n.type \in filterByType

ContainsIgnoringCase(name, q) ==
  \E off \in 0..(Len(name) - Len(q)) :
    \A k \in 1..Len(q) : ToLowerChar(name[off + k]) = ToLowerChar(q[k])

SearchOk(n) ==
  searchQuery = EmptyString \/ ContainsIgnoringCase(n.name, searchQuery)

RECURSIVE NodesPassing(_)
NodesPassing(ns) ==
  IF ns = << >> THEN << >>
  ELSE IF TypeOk(Head(ns)) /\ SearchOk(Head(ns))
    THEN <<Head(ns)>> \o NodesPassing(Tail(ns))
  ELSE NodesPassing(Tail(ns))

\* C4: the filtered nodes are the snapshot's nodes, in order, whose type is
\* filterByType (when set) and whose name contains searchQuery whatever the
\* case (when non-empty); on the Alice example with person and "alice" they
\* are node 1 alone.
C4_FilteredNodes ==
  /\ FilteredView.nodes = NodesPassing(graphData.nodes)
  /\ ((graphData = ExampleAlice /\ filterByType = Some("person")
         /\ searchQuery = queryAlice)
        => FilteredView.nodes = <<Node(s1, "person", nameAlice)>>)

\* The Alice example under person and "alice": node 2 matches the query and
\* is out by its type.
C4_Witness ==
  /\ graphData = ExampleAlice
  /\ filterByType = Some("person")
  /\ searchQuery = queryAlice
  /\ ContainsIgnoringCase(graphData.nodes[2].name, searchQuery)
  /\ Len(FilteredView.nodes) = 1

RECURSIVE LinksWithin(_, _)
LinksWithin(ls, ids) ==
  IF ls = << >> THEN << >>
  ELSE IF EndpointId(Head(ls).source) \in ids /\ EndpointId(Head(ls).target) \in ids
    THEN <<Head(ls)>> \o LinksWithin(Tail(ls), ids)
  ELSE LinksWithin(Tail(ls), ids)

ViewIds == {FilteredView.nodes[i].id : i \in 1..Len(FilteredView.nodes)}

\* C5: with a type filter or a search active, every filtered link has both
\* endpoint ids among the filtered nodes' ids and every snapshot link with
\* both endpoints there is kept; on the A, B, C example filterByType = event
\* gives nodes [B] and no link.
C5_FilteredLinks ==
  /\ ((filterByType # Null \/ searchQuery # EmptyString) =>
        /\ \A i \in 1..Len(FilteredView.links) :
             /\ EndpointId(FilteredView.links[i].source) \in ViewIds
             /\ EndpointId(FilteredView.links[i].target) \in ViewIds
        /\ FilteredView.links = LinksWithin(graphData.links, ViewIds))
  /\ ((graphData = ExampleABC /\ filterByType = Some("event")
         /\ searchQuery = EmptyString)
        => FilteredView = [nodes |-> <<Node(sB, "event", sB)>>, links |-> << >>])

\* The A, B, C example under filterByType = event.
C5_Witness ==
  /\ graphData = ExampleABC
  /\ filterByType = Some("event")
  /\ searchQuery = EmptyString
  /\ FilteredView.links = << >>

\* C6: after setGraphData(S), with no type filter and the empty query, the
\* filtered view is S: same nodes, same links, same order.
C6_RoundTrip ==
  [][\A S \in FilterSnapshots :
       (SetGraphData(S) /\ filterByType' = Null /\ searchQuery' = EmptyString)
         => filteredData(graphData', filterByType', searchQuery') = S]_vars

\* The snapshot with a dangling link and a duplicate id was set and no
\* filter is active.
C6_Witness ==
  /\ lastOp.op = "setGraphData"
  /\ graphData = ExampleDangling
  /\ filterByType = Null
  /\ searchQuery = EmptyString
  /\ FilteredView = ExampleDangling

\* C7: a failed load records a message in error, clears isLoading and
\* leaves graphData as it was.
C7_FailedLoadKeepsGraph ==
  [][lastOp'.op = "loadFailed" =>
       (error' # Null /\ isLoading' = FALSE /\ graphData' = graphData)]_vars

\* C8: a load sets isLoading when it starts; its request settling, with or
\* without success, clears isLoading; isLoading turns true only by a load
\* starting; and every started load does settle, with isLoading then false.
C8_LoadingFlag ==
  /\ [][lastOp'.op = "loadStart" => isLoading' = TRUE]_vars
  /\ [][lastOp'.op \in {"loadFailed", "loadSucceeded"} => isLoading' = FALSE]_vars
  /\ [][(isLoading = FALSE /\ isLoading' = TRUE) => lastOp'.op = "loadStart"]_vars
  /\ \A i \in 1..MaxLoads :
       (i \in pending) ~> (i \notin pending /\ isLoading = FALSE)

\* A load has failed over GET /graph: the error branch ran and the flag is
\* cleared.
C8_Witness ==
  /\ lastOp.op = "loadFailed"
  /\ gateway = "rest"
  /\ error # Null
  /\ isLoading = FALSE
  /\ pending = {}

\* C9: clearGraph empties nodes and links, sets selectedNode to null, and
\* leaves hoveredNode, the two highlight sets, filterByType and searchQuery
\* as they were.
C9_ClearGraphFrame ==
  [][lastOp'.op = "clearGraph" =>
       /\ graphData' = [nodes |-> << >>, links |-> << >>]
       /\ selectedNode' = Null
       /\ UNCHANGED <<hoveredNode, highlightedNodes, highlightedLinks,
                      filterByType, searchQuery>>]_vars

\* clearGraph ran on a non-empty graph while a node was hovered, both
\* highlight sets were non-empty and both filters were set.
C9_Witness ==
  /\ lastOp.op = "clearGraph"
  /\ lastOp.n > 0
  /\ lastOp.m > 0
  /\ hoveredNode # Null
  /\ highlightedNodes # {}
  /\ highlightedLinks # {}
  /\ filterByType # Null
  /\ searchQuery # EmptyString

\* C10: a removeNode(id) that directly follows a removeNode(id) changes
\* nothing in the store.
C10_RemoveNodeIdempotent ==
  [][(lastOp.op = "removeNode" /\ lastOp'.op = "removeNode"
        /\ lastOp'.a = lastOp.a) => UNCHANGED storeVars]_vars

\* removeNode(a) was called twice in a row on a graph that keeps a node
\* and a link.
C10_Witness ==
  /\ lastOp.op = "removeNode"
  /\ lastOp.a = sa
  /\ lastOp.rep
  /\ Len(graphData.nodes) > 0
  /\ Len(graphData.links) > 0

\* C11: a hover event with node n sets hoveredNode to n and replaces both
\* highlight sets with getNeighbors(n.id) of the graph held at that moment; a
\* hover event with null sets hoveredNode to null and both sets to empty.
C11_HoverHandler ==
  [][/\ lastOp'.op = "handleNodeHover:setHoveredNode" =>
          hoveredNode' = lastOp'.arg
     /\ lastOp'.op = "handleNodeHover" =>
          /\ hoveredNode' = lastOp'.arg
          /\ graphData' = graphData
          /\ \A n \in lastOp'.arg :
               /\ highlightedNodes' = getNeighbors(graphData, n.id).nodes
               /\ highlightedLinks' = getNeighbors(graphData, n.id).links
          /\ lastOp'.arg = Null =>
               (highlightedNodes' = {} /\ highlightedLinks' = {})]_vars

\* A hover on a, which has the link a-b: the sets hold b and "a-b".
C11_Witness ==
  /\ lastOp.op = "handleNodeHover"
  /\ hoveredNode # Null
  /\ \A n \in hoveredNode : n.id = sa
  /\ highlightedNodes = {sb}
  /\ highlightedLinks = {LinkIdString(sa, sb)}

\* The other representation of the same endpoint.
OtherRepresentation(e) ==
  IF e.isString THEN ObjectEndpoint(e.value) ELSE StringEndpoint(e.value.id)

\* g with the source (side = 1) or target (side = 2) of link i held in the
\* other representation.
Rerepresented(g, i, side) ==
  [g EXCEPT !.links[i] =
     IF side = 1 THEN [@ EXCEPT !.source = OtherRepresentation(@)]
     ELSE [@ EXCEPT !.target = OtherRepresentation(@)]]

\* A link sequence as the resolved (source id, target id) pairs.
ResolvedLinks(ls) ==
  [i \in 1..Len(ls) |-> <<EndpointId(ls[i].source), EndpointId(ls[i].target)>>]

SameOutcome(g1, g2) ==
  g1.nodes = g2.nodes /\ ResolvedLinks(g1.links) = ResolvedLinks(g2.links)

\* C12: switching the representation of one endpoint of one link (id string
\* or node object with that id) changes nothing in what removeNode,
\* removeLink and the filtered view keep, nor in what getNeighbors returns.
C12_RepresentationEquivalence ==
  \A i \in 1..Len(graphData.links), side \in {1, 2} :
    LET g == graphData
        h == Rerepresented(graphData, i, side)
    IN /\ \A id \in GraphIds :
            /\ SameOutcome(removeNode(g, id), removeNode(h, id))
            /\ getNeighbors(g, id) = getNeighbors(h, id)
       /\ \A sId \in GraphIds, tId \in GraphIds :
            SameOutcome(removeLink(g, sId, tId), removeLink(h, sId, tId))
       /\ \A fType \in FilterTypes, query \in FilterQueries :
            SameOutcome(filteredData(g, fType, query), filteredData(h, fType, query))

\* removeLink(b, a) removed the link from b to a, whose two endpoints are
\* node objects, and kept a link with an id string endpoint.
C12_Witness ==
  /\ lastOp.op = "removeLink"
  /\ lastOp.a = sb
  /\ lastOp.b = sa
  /\ lastOp.m = 2
  /\ Len(graphData.links) = 1
  /\ graphData.links[1].source.isString

RECURSIVE LinksMinusPair(_, _, _)
LinksMinusPair(ls, s, t) ==
  IF ls = << >> THEN << >>
  ELSE IF EndpointId(Head(ls).source) = s /\ EndpointId(Head(ls).target) = t
    THEN LinksMinusPair(Tail(ls), s, t)
  ELSE <<Head(ls)>> \o LinksMinusPair(Tail(ls), s, t)

\* C13: every removeLink(s, t) step leaves the links before it, in order,
\* minus all those whose resolved (source, target) is (s, t); a link stored
\* as (t, s) stays, and the nodes are unchanged.
C13_RemoveLinkExact ==
  [][lastOp'.op = "removeLink" =>
       /\ graphData'.links =
            LinksMinusPair(graphData.links, lastOp'.a, lastOp'.b)
       /\ graphData'.nodes = graphData.nodes
       /\ \A i \in 1..Len(graphData.links) :
            (/\ EndpointId(graphData.links[i].source) = lastOp'.b
             /\ EndpointId(graphData.links[i].target) = lastOp'.a
             /\ lastOp'.a # lastOp'.b)
            => \E j \in 1..Len(graphData'.links) :
                 graphData'.links[j] = graphData.links[i]]_vars

\* removeLink(a, b) removed the link a-b and kept the link b-a.
C13_Witness ==
  /\ lastOp.op = "removeLink"
  /\ lastOp.a = sa
  /\ lastOp.b = sb
  /\ lastOp.m = 2
  /\ Len(graphData.links) = 1
  /\ EndpointId(graphData.links[1].source) = sb
  /\ EndpointId(graphData.links[1].target) = sa

HasSelfLink(g, id) ==
  \E i \in 1..Len(g.links) :
    EndpointId(g.links[i].source) = id /\ EndpointId(g.links[i].target) = id

\* C14: when the graph holds a link from n to n, getNeighbors(n) has n among
\* its nodes and the string n-n among its links.
C14_SelfLink ==
  \A id \in AllIds :
    HasSelfLink(graphData, id) =>
      /\ id \in getNeighbors(graphData, id).nodes
      /\ LinkIdString(id, id) \in getNeighbors(graphData, id).links

\* The link a-a was just added to a graph that had no link: a is its own and
\* only neighbour.
C14_Witness ==
  /\ lastOp.op = "addLink"
  /\ lastOp.a = sa
  /\ lastOp.b = sa
  /\ lastOp.m = 0
  /\ HasSelfLink(graphData, sa)
  /\ getNeighbors(graphData, sa).nodes = {sa}
  /\ getNeighbors(graphData, sa).links = {LinkIdString(sa, sa)}

HasNode(g, id) == \E i \in 1..Len(g.nodes) : g.nodes[i].id = id

HasIncidentLink(g, id) == \E i \in 1..Len(g.links) : Incident(g.links[i], id)

HasLink(g, s, t) ==
  \E i \in 1..Len(g.links) :
    EndpointId(g.links[i].source) = s /\ EndpointId(g.links[i].target) = t

\* C15: removeNode(id) with no node and no incident link of that id,
\* removeLink(s, t) with no link from s to t, and updateNode(id, fields)
\* with no node of that id each return normally and leave every field of the
\* store as it was.
C15_AbsentIdNoOp ==
  [][/\ (/\ lastOp'.op = "removeNode"
          /\ ~HasNode(graphData, lastOp'.a)
          /\ ~HasIncidentLink(graphData, lastOp'.a)) => UNCHANGED storeVars
     /\ (/\ lastOp'.op = "removeLink"
          /\ ~HasLink(graphData, lastOp'.a, lastOp'.b)) => UNCHANGED storeVars
     /\ (/\ lastOp'.op = "updateNode"
          /\ ~HasNode(graphData, lastOp'.a)) => UNCHANGED storeVars]_vars

\* updateNode(b, fields) ran on a graph with a node and a link but no node b,
\* while a node was selected.
C15_Witness ==
  /\ lastOp.op = "updateNode"
  /\ lastOp.a = sb
  /\ lastOp.n = 1
  /\ lastOp.m = 1
  /\ Len(graphData.nodes) = 1
  /\ ~HasNode(graphData, sb)
  /\ selectedNode # Null

\* The node n with the given fields written over its own.
WithFields(n, fields) ==
  [f \in DOMAIN n \cup DOMAIN fields |->
     IF f \in DOMAIN fields THEN fields[f] ELSE n[f]]

\* C16: every updateNode(id, fields) step leaves each node with that id
\* carrying the given fields over its own and its other fields as they were,
\* every other node and every link as it was, and changes nothing when no
\* node has that id.
C16_UpdateNodeMerges ==
  [][lastOp'.op = "updateNode" =>
       \A fields \in lastOp'.arg :
         /\ graphData'.links = graphData.links
         /\ Len(graphData'.nodes) = Len(graphData.nodes)
         /\ \A i \in 1..Len(graphData.nodes) :
              graphData'.nodes[i] =
                IF graphData.nodes[i].id = lastOp'.a
                  THEN WithFields(graphData.nodes[i], fields)
                  ELSE graphData.nodes[i]
         /\ ~HasNode(graphData, lastOp'.a) => graphData' = graphData]_vars

\* updateNode(a, {id: b}) on two nodes: the first, with id a, now has id b
\* and its name and type as before.
C16_Witness ==
  /\ lastOp.op = "updateNode"
  /\ lastOp.a = sa
  /\ lastOp.arg = {[id |-> sb]}
  /\ lastOp.n = 2
  /\ Len(graphData.nodes) = 2
  /\ graphData.nodes[1] = Node(sb, "person", nameAl)
  /\ graphData.nodes[2] = Node(sb, "event", nameBo)

\* C17: every setGraphData(S) step leaves graphData equal to S, whatever
\* the graph was and whether or not the links of S end at nodes of S, and
\* leaves selectedNode and hoveredNode as they were.
C17_SetGraphDataFrame ==
  [][lastOp'.op = "setGraphData" =>
       /\ lastOp'.arg # Null
       /\ \A S \in lastOp'.arg : graphData' = S
       /\ selectedNode' = selectedNode
       /\ hoveredNode' = hoveredNode]_vars

\* setGraphData replaced a graph of one node a by a snapshot without a node
\* a, whose link ends at a; node a is still selected and hovered.
C17_Witness ==
  /\ lastOp.op = "setGraphData"
  /\ lastOp.n = 1
  /\ graphData = ExampleStale
  /\ ~HasNode(graphData, sa)
  /\ selectedNode # Null
  /\ \A n \in selectedNode : n.id = sa
  /\ hoveredNode # Null
  /\ \A n \in hoveredNode : n.id = sa

\* C18: a click on node n leaves selectedNode = n, a click on the background
\* leaves selectedNode = null, neither changes another field of the store,
\* and no other event changes selectedNode: after clicks and background
\* clicks only, selectedNode is what the last of them set.
C18_ClickSelects ==
  [][/\ lastOp'.op = "handleNodeClick" =>
          /\ lastOp'.arg # Null
          /\ selectedNode' = lastOp'.arg
          /\ UNCHANGED <<graphData, hoveredNode, highlightedNodes,
                         highlightedLinks, filterByType, searchQuery,
                         isLoading, error>>
     /\ lastOp'.op = "handleBackgroundClick" =>
          /\ selectedNode' = Null
          /\ UNCHANGED <<graphData, hoveredNode, highlightedNodes,
                         highlightedLinks, filterByType, searchQuery,
                         isLoading, error>>
     /\ lastOp'.op \in {"handleNodeHover:setHoveredNode", "handleNodeHover"}
          => selectedNode' = selectedNode]_vars

\* A click on node a after its type was updated: the node as it is now is
\* selected, while the hover still holds the node as it was.
C18_Witness ==
  /\ lastOp.op = "handleNodeClick"
  /\ selectedNode = Some([Node(sa, "person", nameAl) EXCEPT !.type = "event"])
  /\ hoveredNode = Some(Node(sa, "person", nameAl))
  /\ highlightedNodes = {sb}

\* C19: every addNode(n) step leaves the nodes before it followed by n and
\* the links as they were, and every addLink(l) step the links before it
\* followed by l and the nodes as they were, whatever the graph holds.
C19_AddAppends ==
  [][/\ lastOp'.op = "addNode" =>
          /\ lastOp'.arg # Null
          /\ \A node \in lastOp'.arg :
               graphData'.nodes = graphData.nodes \o <<node>>
          /\ graphData'.links = graphData.links
     /\ lastOp'.op = "addLink" =>
          /\ lastOp'.arg # Null
          /\ \A link \in lastOp'.arg :
               graphData'.links = graphData.links \o <<link>>
          /\ graphData'.nodes = graphData.nodes]_vars

\* Two nodes share the id a, and addLink added a second copy of a link from
\* b to b, b being the id of no node.
C19_Witness ==
  /\ lastOp.op = "addLink"
  /\ lastOp.m = 1
  /\ Len(graphData.nodes) = 2
  /\ graphData.nodes[1].id = sa
  /\ graphData.nodes[2].id = sa
  /\ Len(graphData.links) = 2
  /\ graphData.links[1] = graphData.links[2]
  /\ EndpointId(graphData.links[2].source) = sb
  /\ ~HasNode(graphData, sb)

\* C20: a load can start while others are outstanding, and starting it
\* neither settles nor drops any of them; every load that succeeds leaves
\* graphData equal to what its own getGraph returned, whichever loads were
\* started after it or have settled before it: the load that settles last
\* decides the graph.
C20_LastWriteWins ==
  /\ []((Idle /\ issued < MaxLoads) => ENABLED LoadStart)
  /\ [][lastOp'.op = "loadStart" =>
          /\ lastOp'.n \notin pending
          /\ pending' = pending \cup {lastOp'.n}
          /\ graphData' = graphData]_vars
  /\ [][lastOp'.op = "loadSucceeded" =>
          /\ lastOp'.arg # Null
          /\ \A response \in lastOp'.arg :
               graphData' = getGraph(gateway, response).data
          /\ pending' = pending \ {lastOp'.n}]_vars

\* Three loads were started, the second and the third have settled, and the
\* first one settled last with the graph A, B, C, which is the graph held.
C20_Witness ==
  /\ lastOp.op = "loadSucceeded"
  /\ lastOp.n = 1
  /\ issued = 3
  /\ pending = {}
  /\ gateway = "rest"
  /\ graphData = ExampleABC
  /\ lastOp.arg = {[ok |-> TRUE, valid |-> TRUE, body |-> ExampleABC]}

\* The result records of the load that produced the state.
LoadedRecords == (CHOOSE response \in lastOp.arg : TRUE).results

IsFullRecord(rec) == rec.n # Null /\ rec.r # Null /\ rec.m # Null

NameOf(entity) == (CHOOSE e \in entity : TRUE).name

PairOfRecord(rec) == {NameOf(rec.n), NameOf(rec.m)}

PairOfLink(l) == {EndpointId(l.source), EndpointId(l.target)}

\* Record k is the first record of rs joining its pair of names.
FirstOfItsPair(rs, k) ==
  \A j \in 1..(k - 1) :
    IsFullRecord(rs[j]) => PairOfRecord(rs[j]) # PairOfRecord(rs[k])

\* C21: in the snapshot getGraph builds from the result records, no two
\* links join the same unordered pair of names, and every link has the
\* direction and the relationship of the first record for its pair; the
\* later records for the pair, in either order, add nothing.
C21_GatewayDedup ==
  (lastOp.op = "loadSucceeded" /\ gateway = "cypher") =>
    LET rs == LoadedRecords
        ls == graphData.links
    IN /\ \A i \in 1..Len(ls), j \in 1..Len(ls) :
            i # j => PairOfLink(ls[i]) # PairOfLink(ls[j])
       /\ \A i \in 1..Len(ls) :
            \E k \in 1..Len(rs) :
              /\ IsFullRecord(rs[k])
              /\ FirstOfItsPair(rs, k)
              /\ EndpointId(ls[i].source) = NameOf(rs[k].n)
              /\ EndpointId(ls[i].target) = NameOf(rs[k].m)
              /\ ls[i].relationship =
                   RelationshipOf(CHOOSE r \in rs[k].r : TRUE)

\* The records (a KNOWS b) and then (b, no type, a): one link, from a to b,
\* KNOWS.
C21_Witness ==
  /\ lastOp.op = "loadSucceeded"
  /\ gateway = "cypher"
  /\ LoadedRecords =
       <<Record(Some(Entity(sa, "Person")), Some([type |-> "KNOWS"]),
                Some(Entity(sb, "Location"))),
         Record(Some(Entity(sb, "Location")), Some([type |-> ""]),
                Some(Entity(sa, "Person")))>>
  /\ Len(graphData.links) = 1
  /\ EndpointId(graphData.links[1].source) = sa
  /\ graphData.links[1].relationship = "KNOWS"

\* C22: every removeNode, removeLink, addNode, addLink and updateNode step
\* leaves selectedNode, hoveredNode, both highlight sets, filterByType,
\* searchQuery, isLoading and error as they were.
C22_MutationsFrame ==
  [][lastOp'.op \in {"removeNode", "removeLink", "addNode", "addLink",
                     "updateNode"} =>
       UNCHANGED <<selectedNode, hoveredNode, highlightedNodes,
                   highlightedLinks, filterByType, searchQuery, isLoading,
                   error>>]_vars

\* removeNode(a) removed node a and its link while a was selected and
\* hovered: both still hold node a, and the highlight sets what they held.
C22_Witness ==
  /\ lastOp.op = "removeNode"
  /\ lastOp.a = sa
  /\ lastOp.n = 1
  /\ lastOp.m = 1
  /\ graphData = EmptyGraph
  /\ selectedNode = Some(Node(sa, "person", nameAl))
  /\ hoveredNode = Some(Node(sa, "person", nameAl))
  /\ highlightedNodes = {sb}
  /\ highlightedLinks = {LinkIdString(sa, sb)}

\* The view computed in one pass: the nodes passing every active predicate
\* and the links with both endpoint ids among the ids of those nodes.
SinglePassView ==
  LET nodes == NodesPassing(graphData.nodes)
  IN [nodes |-> nodes,
      links |-> LinksWithin(graphData.links,
                            {nodes[i].id : i \in 1..Len(nodes)})]

\* The view with the search step before the type step.
SearchFirstView ==
  applyTypeFilter(applySearchFilter(graphData, searchQuery), filterByType)

\* C23 as stated: for every filterByType and searchQuery, the filtered view
\* is the single-pass view.
C23_SinglePassAlways == FilteredView = SinglePassView

\* C23, amended: with a type filter or a non-empty query the filtered view
\* is the single-pass view; with neither it is the snapshot as it is, links
\* to missing nodes included; in every case the search step before the type
\* step gives the same view.
C23_FilterOrder ==
  /\ (filterByType # Null \/ searchQuery # EmptyString)
       => FilteredView = SinglePassView
  /\ (filterByType = Null /\ searchQuery = EmptyString)
       => FilteredView = graphData
  /\ FilteredView = SearchFirstView

\* Both filters are on and each removes a node the other keeps, and a link
\* of the graph is not in the view.
C23_Witness ==
  /\ filterByType # Null
  /\ searchQuery # EmptyString
  /\ applyTypeFilter(graphData, filterByType).nodes # FilteredView.nodes
  /\ applySearchFilter(graphData, searchQuery).nodes # FilteredView.nodes
  /\ applySearchFilter(graphData, searchQuery).nodes # << >>
  /\ Len(graphData.links) > Len(FilteredView.links)

NodeIds(g) == {g.nodes[i].id : i \in 1..Len(g.nodes)}

\* C24: over the ids of the snapshot held, two different (source, target)
\* pairs never give the same string source-target; so in the snapshot
\* getGraph builds, every record with n, r and m has a link joining its
\* pair of names (a record adds no link only when its pair has one).
C24_LinkIdInjective ==
  /\ \A s \in NodeIds(graphData), t \in NodeIds(graphData),
        u \in NodeIds(graphData), v \in NodeIds(graphData) :
        <<s, t>> # <<u, v>> => LinkIdString(s, t) # LinkIdString(u, v)
  /\ (lastOp.op = "loadSucceeded" /\ gateway = "cypher") =>
       \A k \in 1..Len(LoadedRecords) :
         IsFullRecord(LoadedRecords[k]) =>
           \E i \in 1..Len(graphData.links) :
             PairOfLink(graphData.links[i]) = PairOfRecord(LoadedRecords[k])

\* C25: while a load's request is outstanding, isLoading is true.
C25_LoadingWhilePending == (pending # {}) => (isLoading = TRUE)

\* C26: in every state the store's subscribers see, each write of the hover
\* handler taken as a step of its own, hoveredNode = null implies that both
\* highlight sets are empty.
C26_NoHoverNoHighlight ==
  (hoveredNode = Null) => (highlightedNodes = {} /\ highlightedLinks = {})

\* C27: after a hover event on node n, n.id is in highlightedNodes exactly
\* when the graph has a link from n.id to n.id; a hovered node with a link
\* and no such self-link is outside highlightedNodes, which is non-empty.
C27_HoverSelfMembership ==
  (lastOp.op = "handleNodeHover" /\ hoveredNode # Null) =>
    \A n \in hoveredNode :
      /\ (n.id \in highlightedNodes) <=> HasSelfLink(graphData, n.id)
      /\ (HasIncidentLink(graphData, n.id) /\ ~HasSelfLink(graphData, n.id))
           => (n.id \notin highlightedNodes /\ highlightedNodes # {})

\* A hover on node b of the snapshot whose only link goes from b to a: a is
\* highlighted, b is not.
C27_Witness ==
  /\ lastOp.op = "handleNodeHover"
  /\ graphData = ExampleStale
  /\ hoveredNode = Some(Node(sb, "event", nameBo))
  /\ highlightedNodes = {sa}
  /\ ~HasSelfLink(graphData, sb)

\* A hover on node a, which has a link to itself: a is highlighted.
C27_WitnessSelfLink ==
  /\ lastOp.op = "handleNodeHover"
  /\ graphData = ExampleDangling
  /\ hoveredNode # Null
  /\ HasSelfLink(graphData, sa)
  /\ sa \in highlightedNodes

\* The entities of the records in the order getGraph meets them: n, then m.
RECURSIVE EntitiesInOrder(_)
EntitiesInOrder(rs) ==
  IF rs = << >> THEN << >>
  ELSE LET rec == Head(rs)
       IN (IF rec.n # Null THEN <<CHOOSE e \in rec.n : TRUE>> ELSE << >>)
            \o (IF rec.m # Null THEN <<CHOOSE e \in rec.m : TRUE>> ELSE << >>)
            \o EntitiesInOrder(Tail(rs))

\* C28: the snapshot getGraph builds from the result records has pairwise
\* distinct node ids, each node built from the first entity met with its
\* name, a node for every name met, and no link whose source or target is
\* not the id of one of its nodes.
C28_GatewaySnapshotSound ==
  (lastOp.op = "loadSucceeded" /\ gateway = "cypher") =>
    LET es == EntitiesInOrder(LoadedRecords)
        ns == graphData.nodes
        ls == graphData.links
    IN /\ \A i \in 1..Len(ns), j \in 1..Len(ns) : i # j => ns[i].id # ns[j].id
       /\ \A i \in 1..Len(ns) :
            \E k \in 1..Len(es) :
              /\ es[k].name = ns[i].id
              /\ \A j \in 1..(k - 1) : es[j].name # es[k].name
              /\ ns[i].name = es[k].name
              /\ ns[i].type = NodeTypeOfCategory(es[k].category)
       /\ \A k \in 1..Len(es) : es[k].name \in NodeIds(graphData)
       /\ \A i \in 1..Len(ls) :
            /\ EndpointId(ls[i].source) \in NodeIds(graphData)
            /\ EndpointId(ls[i].target) \in NodeIds(graphData)

\* The records (a as Person KNOWS b) and (a as Date, alone): two nodes, a
\* with the type person of its first record, and the link a-b.
C28_Witness ==
  /\ lastOp.op = "loadSucceeded"
  /\ gateway = "cypher"
  /\ LoadedRecords =
       <<Record(Some(Entity(sa, "Person")), Some([type |-> "KNOWS"]),
                Some(Entity(sb, "Location"))),
         Record(Some(Entity(sa, "Date")), Null, Null)>>
  /\ Len(graphData.nodes) = 2
  /\ graphData.nodes[1] = Node(sa, "person", sa)
  /\ Len(graphData.links) = 1

\* C29: once error holds a message, no load, whether it succeeds or fails,
\* and no event of the page or of the graph view sets it back to null; only
\* a call of setError does.
C29_ErrorSticks ==
  [][(error # Null /\ lastOp'.op # "setError") => error' # Null]_vars

\* After a failed load, a later load succeeded and put the graph A, B, C
\* in the store; error still holds the message.
C29_Witness ==
  /\ lastOp.op = "loadSucceeded"
  /\ lastOp.n > 1
  /\ graphData = ExampleABC
  /\ error = Some(LoadErrorMessage)
  /\ pending = {}

\* The ids the links of g name, in either representation.
ReferencedIds(g) ==
  {EndpointId(g.links[k].source) : k \in 1..Len(g.links)}
    \cup {EndpointId(g.links[k].target) : k \in 1..Len(g.links)}

\* C30: every updateNode(id, fields) step keeps the number and the order of
\* the nodes; a node at a position whose id is not id stays as it was, and
\* every position whose id is id, duplicates included, gets the fields; a
\* node's id changes only to the id that fields carries; the links, and so
\* the ids they name, stay as they were even when no node has the old id any
\* more.
C30_UpdateNodeShape ==
  [][lastOp'.op = "updateNode" =>
       \A fields \in lastOp'.arg :
         LET old == graphData.nodes
             new == graphData'.nodes
             hit == {i \in 1..Len(old) : old[i].id = lastOp'.a}
         IN  /\ DOMAIN new = DOMAIN old
             /\ \A i \in (DOMAIN old) \ hit : new[i] = old[i]
             /\ \A i \in hit :
                  /\ \A f \in DOMAIN fields : new[i][f] = fields[f]
                  /\ \A f \in (DOMAIN old[i]) \ (DOMAIN fields) :
                       new[i][f] = old[i][f]
             /\ \A i \in DOMAIN old :
                  new[i].id # old[i].id =>
                    /\ "id" \in DOMAIN fields
                    /\ new[i].id = fields.id
             /\ graphData'.links = graphData.links
             /\ ReferencedIds(graphData') = ReferencedIds(graphData)]_vars

\* updateNode(a, {id: b}) ran on two nodes and a link from a: both nodes have
\* the id b now, no node has the id a, and the link still names a.
C30_Witness ==
  /\ lastOp.op = "updateNode"
  /\ lastOp.a = sa
  /\ lastOp.arg = {[id |-> sb]}
  /\ Len(graphData.nodes) = 2
  /\ \A i \in 1..2 : graphData.nodes[i].id = sb
  /\ graphData.nodes[1].type = "person"
  /\ graphData.nodes[2].type = "person"
  /\ ~HasNode(graphData, sa)
  /\ sa \in ReferencedIds(graphData)

====
